---- MODULE Spec2Model ----
(***************************************************************************)
(* Model of the command-line entry point of not_cloud_init                 *)
(* (src/not_cloud_init/cli.py): one run of cli(), from parsed options to   *)
(* the call of create_cloud_init_config or to sys.exit(1).  The run is     *)
(* sequential; the operator's replies to click.prompt / click.confirm are  *)
(* the only inputs that arrive after start.                                *)
(***************************************************************************)
EXTENDS Integers, Sequences, FiniteSets, TLC

\* ---------------------------------------------------------------- bounds
\* Number of output paths, besides the default one, the caller or the
\* operator can name.
NumOtherPaths == 2

\* ------------------------------------------------------------- constants
default_output_path == "cloud-config.yaml"

OtherPath(i) == "out" \o ToString(i) \o ".yaml"

Paths == {default_output_path} \cup {OtherPath(i) : i \in 1..NumOtherPaths}

\* --password is optional: absent (Python None) or a supplied string.
NoPassword == "None"
Passwords == {NoPassword, "hunter2"}

\* What the operator can type at click.prompt: nothing (Enter) or a path.
PathInputs == {""} \cup Paths
\* What the operator can type at click.confirm: nothing (Enter), y or n.
ConfirmInputs == {"", "y", "n"}

\* The operator's interrupt, as it appears in the transcript of replies.
Interrupt == "^C"

NoExit == -1

\* The options of the command, as click hands them to cli().
Args == [interactive : BOOLEAN, quiet : BOOLEAN, output_path : Paths,
         force : BOOLEAN, gather_public_keys : BOOLEAN,
         password : Passwords,
         disable_apt : BOOLEAN, disable_snap : BOOLEAN,
         disable_ssh : BOOLEAN, disable_user : BOOLEAN,
         enable_hostname : BOOLEAN, rename_to_ubuntu_user : BOOLEAN]

VARIABLES
    args,             \* the options as supplied by the caller (never changes)
    fs,               \* the paths that exist on the filesystem
    pc,               \* position of the run inside cli() / get_output_path()
    output_path,      \* the local variable output_path
    quiet_mode,       \* console_output's quiet flag
    disabled_configs, \* the local list disabled_configs
    prompts,          \* prompts issued to the operator, in order
    replies,          \* what the operator typed at each prompt, in order
    overwrite,        \* the operator's answer to the confirmation
    observed,         \* results of the os.path.exists calls made so far
    output,           \* print_error / print_warning / print_info, in order
    exit_code,        \* argument of sys.exit, NoExit while none was made
    calls             \* invocations of create_cloud_init_config, in order

vars == <<args, fs, pc, output_path, quiet_mode, disabled_configs, prompts,
          replies, overwrite, observed, output, exit_code, calls>>

\* ------------------------------------------------------- pure expressions
\* cli.py:124  interactive and (disable_apt or ... or enable_hostname)
ConfigConflictNoUser(a) ==
    a.interactive /\ (a.disable_apt \/ a.disable_snap \/ a.disable_ssh
                      \/ a.enable_hostname)

ConfigConflict(a) ==
    a.interactive /\ (a.disable_apt \/ a.disable_snap \/ a.disable_ssh
                      \/ a.disable_user \/ a.enable_hostname)

\* cli.py:128  interactive and not force
UsesGetOutputPathIgnoringForce(a) == a.interactive

UsesGetOutputPath(a) == a.interactive /\ ~a.force

\* cli.py:130  os.path.exists(output_path) and not force
ExistsErrorNever(exists, force) == FALSE

ExistsError(exists, force) == exists /\ ~force

\* cli.py:169  output_path == default_output_path
ShouldPromptPathInverted(p) == p # default_output_path

ShouldPromptPath(p) == p = default_output_path

\* cli.py:171-175  click.prompt(..., default=default_output_path): an empty
\* reply yields the default, any other reply is returned as typed.
PromptValue(input) == IF input = "" THEN default_output_path ELSE input

\* cli.py:181-184  click.confirm(..., default=False): an empty reply yields
\* the default (no), otherwise y is yes and n is no.
ConfirmValueDefaultYes(input) == IF input = "" THEN TRUE ELSE input = "y"

ConfirmValue(input) == IF input = "" THEN FALSE ELSE input = "y"

\* cli.py:137-147  the list disabled_configs
BuildDisabledConfigsHostnameInverted(a) ==
    (IF a.disable_apt THEN <<"apt">> ELSE <<>>)
    \o (IF a.disable_snap THEN <<"snap">> ELSE <<>>)
    \o (IF a.disable_ssh THEN <<"ssh">> ELSE <<>>)
    \o (IF a.disable_user THEN <<"user">> ELSE <<>>)
    \o (IF a.enable_hostname THEN <<"hostname">> ELSE <<>>)

BuildDisabledConfigsSshAsUser(a) ==
    (IF a.disable_apt THEN <<"apt">> ELSE <<>>)
    \o (IF a.disable_snap THEN <<"snap">> ELSE <<>>)
    \o (IF a.disable_ssh THEN <<"user">> ELSE <<>>)
    \o (IF a.disable_user THEN <<"user">> ELSE <<>>)
    \o (IF ~a.enable_hostname THEN <<"hostname">> ELSE <<>>)

BuildDisabledConfigs(a) ==
    (IF a.disable_apt THEN <<"apt">> ELSE <<>>)
    \o (IF a.disable_snap THEN <<"snap">> ELSE <<>>)
    \o (IF a.disable_ssh THEN <<"ssh">> ELSE <<>>)
    \o (IF a.disable_user THEN <<"user">> ELSE <<>>)
    \o (IF ~a.enable_hostname THEN <<"hostname">> ELSE <<>>)

\* ------------------------------------------------------------------ Init
Init ==
    /\ args \in Args
    /\ fs \in SUBSET Paths
    /\ pc = "start"
    /\ output_path = args.output_path
    /\ quiet_mode = FALSE
    /\ disabled_configs = <<>>
    /\ prompts = <<>>
    /\ replies = <<>>
    /\ overwrite = "unset"
    /\ observed = {}
    /\ output = <<>>
    /\ exit_code = NoExit
    /\ calls = <<>>

\* --------------------------------------------------------------- actions
\* cli.py:118-121  configure_logging(); if quiet: set_quiet_mode(True)
Configure ==
    /\ pc = "start"
    /\ quiet_mode' = args.quiet
    /\ pc' = "check_conflict"
    /\ UNCHANGED <<args, replies, fs, output_path, disabled_configs, prompts,
                   overwrite, observed, output, exit_code, calls>>

\* cli.py:123-126  the conflict check: print_error and sys.exit(1)
ConflictExit ==
    /\ pc = "check_conflict"
    /\ ConfigConflict(args)
    /\ output' = Append(output, "error:conflict")
    /\ exit_code' = 1
    /\ pc' = "exited"
    /\ UNCHANGED <<args, replies, fs, output_path, quiet_mode, disabled_configs,
                   prompts, overwrite, observed, calls>>

NoConflict ==
    /\ pc = "check_conflict"
    /\ ~ConfigConflict(args)
    /\ pc' = "select_output"
    /\ UNCHANGED <<args, replies, fs, output_path, quiet_mode, disabled_configs,
                   prompts, overwrite, observed, output, exit_code, calls>>

\* cli.py:128-129  if interactive and not force: get_output_path(output_path)
EnterGetOutputPath ==
    /\ pc = "select_output"
    /\ UsesGetOutputPath(args)
    /\ pc' = "gop_start"
    /\ UNCHANGED <<args, replies, fs, output_path, quiet_mode, disabled_configs,
                   prompts, overwrite, observed, output, exit_code, calls>>

\* cli.py:130-132  elif os.path.exists(output_path) and not force: exit 1
ExistsExit ==
    /\ pc = "select_output"
    /\ ~UsesGetOutputPath(args)
    /\ ExistsError(output_path \in fs, args.force)
    /\ observed' = observed \cup {<<output_path, output_path \in fs>>}
    /\ output' = Append(output, "error:exists")
    /\ exit_code' = 1
    /\ pc' = "exited"
    /\ UNCHANGED <<args, replies, fs, output_path, quiet_mode, disabled_configs,
                   prompts, overwrite, calls>>

\* cli.py:133-134  elif force: print_warning(...)
ForceWarning ==
    /\ pc = "select_output"
    /\ ~UsesGetOutputPath(args)
    /\ ~ExistsError(output_path \in fs, args.force)
    /\ args.force
    /\ observed' = observed \cup {<<output_path, output_path \in fs>>}
    /\ output' = Append(output, "warning:overwrite")
    /\ pc' = "build"
    /\ UNCHANGED <<args, replies, fs, output_path, quiet_mode, disabled_configs,
                   prompts, overwrite, exit_code, calls>>

\* cli.py:128-134  no branch taken: not interactive, no force, path is free
PathFree ==
    /\ pc = "select_output"
    /\ ~UsesGetOutputPath(args)
    /\ ~ExistsError(output_path \in fs, args.force)
    /\ ~args.force
    /\ observed' = observed \cup {<<output_path, output_path \in fs>>}
    /\ pc' = "build"
    /\ UNCHANGED <<args, replies, fs, output_path, quiet_mode, disabled_configs,
                   prompts, overwrite, output, exit_code, calls>>

\* cli.py:169-175  get_output_path: the path prompt is issued
IssuePathPrompt ==
    /\ pc = "gop_start"
    /\ ShouldPromptPath(output_path)
    /\ prompts' = Append(prompts, [kind |-> "path", path |-> output_path])
    /\ pc' = "await_path"
    /\ UNCHANGED <<args, replies, fs, output_path, quiet_mode, disabled_configs,
                   overwrite, observed, output, exit_code, calls>>

\* cli.py:169  get_output_path: the caller already chose a path
SkipPathPrompt ==
    /\ pc = "gop_start"
    /\ ~ShouldPromptPath(output_path)
    /\ pc' = "gop_selected"
    /\ UNCHANGED <<args, replies, fs, output_path, quiet_mode, disabled_configs,
                   prompts, overwrite, observed, output, exit_code, calls>>

\* cli.py:171-175  the operator replies to the path prompt
AnswerPath ==
    /\ pc = "await_path"
    /\ \E input \in PathInputs :
         /\ replies' = Append(replies, input)
         /\ output_path' = PromptValue(input)
    /\ pc' = "gop_selected"
    /\ UNCHANGED <<args, fs, quiet_mode, disabled_configs, prompts,
                   overwrite, observed, output, exit_code, calls>>

\* cli.py:177-184  print_info; os.path.exists; the confirmation is issued
\* when the path exists, otherwise get_output_path returns (cli.py:190)
CheckChosenPath ==
    /\ pc = "gop_selected"
    /\ output' = Append(output, "info:selected")
    /\ observed' = observed \cup {<<output_path, output_path \in fs>>}
    /\ IF output_path \in fs
       THEN /\ prompts' = Append(prompts,
                                 [kind |-> "confirm", path |-> output_path])
            /\ pc' = "await_confirm"
       ELSE /\ prompts' = prompts
            /\ pc' = "build"
    /\ UNCHANGED <<args, replies, fs, output_path, quiet_mode, disabled_configs,
                   overwrite, exit_code, calls>>

\* cli.py:181-190  the operator replies to the confirmation
AnswerConfirm ==
    /\ pc = "await_confirm"
    /\ \E input \in ConfirmInputs :
         /\ replies' = Append(replies, input)
         /\ IF ConfirmValue(input)
            THEN /\ overwrite' = "yes"
                 /\ pc' = "build"
                 /\ UNCHANGED <<output, exit_code>>
            ELSE /\ overwrite' = "no"
                 /\ output' = Append(output, "error:declined")
                 /\ exit_code' = 1
                 /\ pc' = "exited"
    /\ UNCHANGED <<args, fs, output_path, quiet_mode, disabled_configs,
                   prompts, observed, calls>>

\* cli.py:171, 181  the operator interrupts a prompt (Ctrl-C / end of input):
\* click raises Abort and the command exits with code 1
OperatorAbort ==
    /\ pc \in {"await_path", "await_confirm"}
    /\ replies' = Append(replies, Interrupt)
    /\ output' = Append(output, "aborted")
    /\ exit_code' = 1
    /\ pc' = "exited"
    /\ UNCHANGED <<args, fs, output_path, quiet_mode, disabled_configs,
                   prompts, overwrite, observed, calls>>

\* cli.py:137-147
BuildDisabled ==
    /\ pc = "build"
    /\ disabled_configs' = BuildDisabledConfigs(args)
    /\ pc' = "invoke"
    /\ UNCHANGED <<args, replies, fs, output_path, quiet_mode, prompts, overwrite,
                   observed, output, exit_code, calls>>

\* cli.py:149-157
Invoke ==
    /\ pc = "invoke"
    /\ calls' = Append(calls,
         [output_path |-> output_path,
          interactive |-> args.interactive,
          gather_public_keys |-> args.gather_public_keys,
          password |-> args.password,
          disabled_configs |-> disabled_configs,
          rename_to_ubuntu_user |-> args.rename_to_ubuntu_user,
          quiet |-> args.quiet])
    /\ pc' = "invoked"
    /\ UNCHANGED <<args, replies, fs, output_path, quiet_mode, disabled_configs,
                   prompts, overwrite, observed, output, exit_code>>

\* The steps the program takes by itself.
ProgramStep ==
    \/ Configure
    \/ ConflictExit
    \/ NoConflict
    \/ EnterGetOutputPath
    \/ ExistsExit
    \/ ForceWarning
    \/ PathFree
    \/ IssuePathPrompt
    \/ SkipPathPrompt
    \/ CheckChosenPath
    \/ BuildDisabled
    \/ Invoke

\* The steps that wait for the operator.
OperatorStep ==
    \/ AnswerPath
    \/ AnswerConfirm
    \/ OperatorAbort

Next == ProgramStep \/ OperatorStep

Spec == Init /\ [][Next]_vars

\* The interpreter runs the program's own steps to completion; nothing
\* obliges the operator to answer.
FairSpec == Spec /\ WF_vars(ProgramStep)

TypeOK ==
    /\ args \in Args
    /\ fs \subseteq Paths
    /\ output_path \in Paths
    /\ quiet_mode \in BOOLEAN
    /\ overwrite \in {"unset", "yes", "no"}
    /\ exit_code \in {NoExit, 1}
    /\ Len(calls) <= 1

\* ---------------------------------------------------- vocabulary of claims
Range(s) == {s[i] : i \in 1..Len(s)}

PathPrompted == \E i \in 1..Len(prompts) : prompts[i].kind = "path"

ConfirmPrompted == \E i \in 1..Len(prompts) : prompts[i].kind = "confirm"

\* Interactive together with one of the five disable/enable flags.
FlagConflict ==
    /\ args.interactive
    /\ \/ args.disable_apt
       \/ args.disable_snap
       \/ args.disable_ssh
       \/ args.disable_user
       \/ args.enable_hostname

\* The run is past the conflict check of cli.py:124.
PastConflictCheck == pc \notin {"start", "check_conflict"}

\* The run is past the call of get_output_path's first test (cli.py:169).
PastPromptDecision ==
    pc \notin {"start", "check_conflict", "select_output", "gop_start"}

\* C1: a run with interactive and any of disable_apt, disable_snap,
\* disable_ssh, disable_user, enable_hostname reports an error and exits
\* with code 1 as soon as it is past the conflict check; it issues no
\* prompt, never checks the existence of the output path and never invokes
\* create_cloud_init_config.
C1_ConflictExitsBeforeAnything ==
    FlagConflict =>
        /\ prompts = <<>>
        /\ observed = {}
        /\ calls = <<>>
        /\ PastConflictCheck =>
              /\ pc = "exited"
              /\ exit_code = 1
              /\ output = <<"error:conflict">>

C1_Witness ==
    /\ FlagConflict
    /\ args.disable_user
    /\ ~args.disable_apt /\ ~args.disable_snap /\ ~args.disable_ssh
    /\ ~args.enable_hostname
    /\ args.output_path \in fs
    /\ pc = "exited"
    /\ exit_code = 1

\* C2: create_cloud_init_config is invoked with a path that was observed
\* to exist only if --force was given or the operator answered yes to the
\* overwrite confirmation; without --force an existence check of the very
\* path handed over always precedes the invocation.
C2_ExistenceCheckNeverSkipped ==
    \A i \in 1..Len(calls) :
        /\ <<calls[i].output_path, TRUE>> \in observed =>
              \/ args.force
              \/ /\ overwrite = "yes"
                 /\ prompts[Len(prompts)] =
                      [kind |-> "confirm", path |-> calls[i].output_path]
                 /\ replies[Len(prompts)] = "y"
        /\ ~args.force =>
              \E r \in observed :
                  /\ r[1] = calls[i].output_path
                  /\ r[2] = (calls[i].output_path \in fs)

C2_Witness ==
    /\ ~args.force
    /\ Len(calls) = 1
    /\ <<calls[1].output_path, TRUE>> \in observed
    /\ overwrite = "yes"

\* C3: in interactive mode, when the chosen path exists and the operator
\* declines the overwrite confirmation (by typing n or by accepting the
\* default), the run exits with a non-zero code and
\* create_cloud_init_config is never invoked.
C3_DeclineAborts ==
    \A i \in 1..Len(replies) :
        (/\ args.interactive
         /\ prompts[i].kind = "confirm"
         /\ replies[i] \in {"", "n"})
        => /\ pc = "exited"
           /\ exit_code \notin {NoExit, 0}
           /\ calls = <<>>

C3_Witness ==
    /\ args.interactive
    /\ ConfirmPrompted
    /\ Len(replies) = Len(prompts)
    /\ replies[Len(replies)] = ""
    /\ output_path \in fs
    /\ pc = "exited"

\* An option other than -f/--force is supplied.
OtherOptionSupplied ==
    \/ args.quiet
    \/ args.output_path # default_output_path
    \/ args.gather_public_keys
    \/ args.password # NoPassword
    \/ args.rename_to_ubuntu_user
    \/ args.disable_apt
    \/ args.disable_snap
    \/ args.disable_ssh
    \/ args.disable_user
    \/ args.enable_hostname

\* C4: only -f/--force can be used with -i/--interactive: an interactive
\* run in which any other option is supplied never invokes
\* create_cloud_init_config and, when it ends, ends with exit code 1.
C4_OnlyForceWithInteractive ==
    (args.interactive /\ OtherOptionSupplied) =>
        /\ calls = <<>>
        /\ pc # "invoked"
        /\ pc = "exited" => exit_code = 1

\* The flag by which the caller excludes a module; no flag excludes
\* hostname.
ExcludedByFlag(m) ==
    CASE m = "apt" -> args.disable_apt
      [] m = "snap" -> args.disable_snap
      [] m = "ssh" -> args.disable_ssh
      [] m = "user" -> args.disable_user
      [] OTHER -> FALSE

\* C5 as stated: a module name is in disabled_configs only if the caller
\* supplied a flag excluding that module.
C5_OnlyExplicitlyExcluded ==
    \A i \in 1..Len(calls) :
        \A m \in Range(calls[i].disabled_configs) : ExcludedByFlag(m)

\* C5 as amended: apt, snap, ssh and user are in disabled_configs only if
\* the caller supplied the matching --disable-* flag; hostname is in
\* disabled_configs only if the caller did not supply --enable-hostname.
C5_OnlyExcludedOrHostnameDefault ==
    \A i \in 1..Len(calls) :
        \A m \in Range(calls[i].disabled_configs) :
            IF m = "hostname" THEN ~args.enable_hostname
                              ELSE ExcludedByFlag(m)

C5_Witness ==
    /\ Len(calls) = 1
    /\ calls[1].disabled_configs = <<"apt", "user", "hostname">>
    /\ ~args.enable_hostname

ModuleOrder == <<"apt", "snap", "ssh", "user", "hostname">>

ModuleNames == Range(ModuleOrder)

Position(m) == CHOOSE k \in 1..Len(ModuleOrder) : ModuleOrder[k] = m

InFixedOrder(s) ==
    /\ Range(s) \subseteq ModuleNames
    /\ \A i, j \in 1..Len(s) : i < j => Position(s[i]) < Position(s[j])

\* Every subset of the module names is the disabled set built for some
\* non-interactive flag combination.
EverySubsetBuildable ==
    \A S \in SUBSET ModuleNames :
        \E a \in Args :
            /\ ~a.interactive
            /\ Range(BuildDisabledConfigs(a)) = S

\* C6: the disabled_configs argument is a duplicate-free list in the order
\* apt, snap, ssh, user, hostname, holding apt iff disable_apt, snap iff
\* disable_snap, ssh iff disable_ssh, user iff disable_user and hostname iff
\* enable_hostname is not set; every subset of the five names is the
\* disabled set of some non-interactive flag combination.
C6_DisabledConfigsExact ==
    /\ \A i \in 1..Len(calls) :
         LET dc == calls[i].disabled_configs IN
         /\ InFixedOrder(dc)
         /\ "apt" \in Range(dc) <=> args.disable_apt
         /\ "snap" \in Range(dc) <=> args.disable_snap
         /\ "ssh" \in Range(dc) <=> args.disable_ssh
         /\ "user" \in Range(dc) <=> args.disable_user
         /\ "hostname" \in Range(dc) <=> ~args.enable_hostname
    /\ EverySubsetBuildable

C6_Witness ==
    /\ ~args.interactive
    /\ Len(calls) = 1
    /\ calls[1].disabled_configs = <<"snap", "ssh">>
    /\ args.enable_hostname

\* --force without a flag conflict.
ForceNoConflict == args.force /\ ~FlagConflict

\* C7: with --force and no flag conflict the run never exits with an error,
\* never prompts the operator for a path or a confirmation, in interactive
\* and non-interactive mode alike, and invokes create_cloud_init_config
\* exactly once, with the output path exactly as the caller supplied it.
C7_ForceNeverBlocks ==
    /\ [](ForceNoConflict =>
            /\ prompts = <<>>
            /\ pc # "exited"
            /\ exit_code = NoExit
            /\ Len(calls) <= 1
            /\ \A i \in 1..Len(calls) :
                 calls[i].output_path = args.output_path)
    /\ (ForceNoConflict ~> (pc = "invoked" /\ Len(calls) = 1))

C7_Witness ==
    /\ ForceNoConflict
    /\ args.interactive
    /\ args.output_path = default_output_path
    /\ args.output_path \in fs
    /\ pc = "invoked"
    /\ Len(calls) = 1

\* The run in which the path prompt is due.
PathPromptDue ==
    /\ args.interactive
    /\ ~args.force
    /\ ~FlagConflict
    /\ args.output_path = default_output_path

\* The path get_output_path settles on, given the transcript.
ChosenPath ==
    IF PathPrompted /\ Len(replies) >= 1
    THEN (IF replies[1] = "" THEN default_output_path ELSE replies[1])
    ELSE args.output_path

\* C8: the operator is prompted for the path exactly when the run is
\* interactive, without --force, without flag conflict, and the supplied
\* path is the default; in every other interactive non-force run that
\* calls get_output_path no path prompt is issued and the supplied path is
\* returned unchanged; the overwrite confirmation names the path finally
\* chosen.
C8_PathPromptExactlyWhenDefault ==
    /\ PathPrompted => PathPromptDue
    /\ (PathPromptDue /\ PastPromptDecision) => PathPrompted
    /\ (args.interactive /\ ~args.force /\ ~PathPromptDue
        /\ PastPromptDecision /\ pc # "exited")
        => (~PathPrompted /\ output_path = args.output_path)
    /\ \A i \in 1..Len(prompts) :
         prompts[i].kind = "confirm" =>
             /\ prompts[i].path = ChosenPath
             /\ prompts[i].path = output_path

C8_Witness ==
    /\ PathPromptDue
    /\ Len(prompts) = 2
    /\ prompts[1].kind = "path"
    /\ replies[1] = OtherPath(1)
    /\ prompts[2] = [kind |-> "confirm", path |-> OtherPath(1)]
    /\ args.output_path # OtherPath(1)
====
